---- MODULE Spec2Model ----
(***************************************************************************)
(* Gym slot allocation: allocate_slots of Gym/allocator.py (the base       *)
(* variant: 5 slots, 3 preference ranks) and of data/iiitk.py (the         *)
(* extended variant: 9 slots, 9 preference ranks, e-mail domain check).    *)
(*                                                                         *)
(* Text is a sequence of one-character strings, so that str.strip,         *)
(* str.lower and str.endswith are computed and not assumed.  Field names   *)
(* are only ever compared for equality and stay TLA+ strings.  The input   *)
(* file is revealed as csv.DictReader consumes it: its header when         *)
(* reader.fieldnames is read, each row when the for loop asks for it.      *)
(***************************************************************************)
EXTENDS Integers, Sequences, FiniteSets, TLC

VARIABLES variant, pc, fieldnames, nread, records, capacity, row, writer, outheader,
          outrows, capBefore, err, infile, inputExists, calls, artifact,
          outopened

vars == <<variant, pc, fieldnames, nread, records, capacity, row, writer, outheader,
          outrows, capBefore, err, infile, inputExists, calls, artifact,
          outopened>>

\* ---------------------------------------------------------------- bounds
\* rows read from the input file (blank lines included), base variant
MaxRowsBase == 6

\* rows read from the input file (blank lines included), extended variant
MaxRowsExt == 3

\* calls of allocate_slots on the same pair of files
MaxCalls == 2

\* rows of an input file that allocate_slots is called on more than once
MaxRerunRows == 2

\* ------------------------------------------------------- text of the code
SLOT_1_B ==
    <<"S", "L", "O", "T", " ", "1", " ", "(", "5", ":", "3", "0", "A", "M", " ", "T", "O", " ", "7", ":", "0", "0", " ", "A", "M", ")">>

SLOT_2_B ==
    <<"S", "L", "O", "T", " ", "2", " ", "(", "7", ":", "0", "0", "A", "M", " ", "T", "O", " ", "8", ":", "3", "0", "A", "M", ")">>

SLOT_3_B ==
    <<"S", "L", "O", "T", " ", "3", " ", "(", "4", ":", "0", "0", "P", "M", " ", "T", "O", " ", "5", ":", "3", "0", "P", "M", ")">>

SLOT_4_B ==
    <<"S", "L", "O", "T", " ", "4", " ", "(", "5", ":", "3", "0", "P", "M", " ", "T", "O", " ", "7", ":", "0", "0", "P", "M", ")">>

SLOT_5_B ==
    <<"S", "L", "O", "T", " ", "5", " ", "(", "7", ":", "0", "0", "P", "M", " ", "T", "O", " ", "8", ":", "3", "0", "P", "M", ")">>

SLOT_1_E ==
    <<"S", "L", "O", "T", " ", "1", " ", "(", "4", ":", "3", "0", "A", "M", " ", "T", "O", " ", "5", ":", "3", "0", " ", "A", "M", ")">>

SLOT_2_E ==
    <<"S", "L", "O", "T", " ", "2", " ", "(", "5", ":", "3", "0", "A", "M", " ", "T", "O", " ", "7", ":", "0", "0", " ", "A", "M", ")">>

SLOT_3_E ==
    <<"S", "L", "O", "T", " ", "3", " ", "(", "7", ":", "0", "0", "A", "M", " ", "T", "O", " ", "8", ":", "3", "0", "A", "M", ")">>

SLOT_4_E ==
    <<"S", "L", "O", "T", " ", "4", " ", "(", "2", ":", "3", "0", "P", "M", " ", "T", "O", " ", "4", ":", "0", "0", "P", "M", ")">>

SLOT_5_E ==
    <<"S", "L", "O", "T", " ", "5", " ", "(", "4", ":", "0", "0", "P", "M", " ", "T", "O", " ", "5", ":", "3", "0", "P", "M", ")">>

SLOT_6_E ==
    <<"S", "L", "O", "T", " ", "6", " ", "(", "5", ":", "3", "0", "P", "M", " ", "T", "O", " ", "7", ":", "0", "0", "P", "M", ")">>

SLOT_7_E ==
    <<"S", "L", "O", "T", " ", "7", " ", "(", "7", ":", "0", "0", "P", "M", " ", "T", "O", " ", "8", ":", "3", "0", "P", "M", ")">>

SLOT_8_E ==
    <<"S", "L", "O", "T", " ", "8", " ", "(", "8", ":", "3", "0", "P", "M", " ", "T", "O", " ", "1", "0", ":", "0", "0", "P", "M", ")">>

SLOT_9_E ==
    <<"S", "L", "O", "T", " ", "9", " ", "(", "1", "0", ":", "0", "0", "P", "M", " ", "T", "O", " ", "1", "1", ":", "3", "0", "P", "M", ")">>

NoSlotAllocated ==
    <<"N", "o", " ", "s", "l", "o", "t", " ", "a", "l", "l", "o", "c", "a", "t", "e", "d">>

InvalidEmailDomain ==
    <<"I", "n", "v", "a", "l", "i", "d", " ", "e", "m", "a", "i", "l", " ", "d", "o", "m", "a", "i", "n">>

DomainSuffix ==
    <<"@", "i", "i", "i", "t", "k", ".", "a", "c", ".", "i", "n">>

AllocatedSlot == "Allocated Slot"

Email == "Email"

\* Python's None as a cell value: no text equals it, text being made of
\* one-character strings.  Also reader.fieldnames of an empty file.
None == <<"None">>

\* csv.DictReader's restkey (None): the key of the surplus cells of a row
\* longer than the header.
restkey == "restkey:None"

\* the capacity table of allocator.py
capacityBase ==
    (SLOT_1_B :> 5) @@ (SLOT_2_B :> 7) @@ (SLOT_3_B :> 12) @@
    (SLOT_4_B :> 5) @@ (SLOT_5_B :> 0)

\* the capacity table of iiitk.py
capacityExt ==
    (SLOT_1_E :> 20) @@ (SLOT_2_E :> 2) @@ (SLOT_3_E :> 3) @@
    (SLOT_4_E :> 35) @@ (SLOT_5_E :> 3) @@ (SLOT_6_E :> 1) @@
    (SLOT_7_E :> 1) @@ (SLOT_8_E :> 35) @@ (SLOT_9_E :> 35)

InitialCapacity(v) == IF v = "base" THEN capacityBase ELSE capacityExt

\* the preference columns of allocator.py, in rank order
pref_keys ==
    <<"SLOT PREFERENCE : 1", "SLOT PREFERENCE : 2", "SLOT PREFERENCE : 3">>

\* the preference columns of iiitk.py, in rank order
preference_columns ==
    <<"SLOT PREFERENCE : 1", "SLOT PREFERENCE : 2", "SLOT PREFERENCE : 3",
      "SLOT PREFERENCE : 4", "SLOT PREFERENCE : 5", "SLOT PREFERENCE : 6",
      "SLOT PREFERENCE : 7", "SLOT PREFERENCE : 8", "SLOT PREFERENCE : 9">>

PrefColumns(v) == IF v = "base" THEN pref_keys ELSE preference_columns

\* ------------------------------------------------------ Python's str, csv
Whitespace == {" ", "\t", "\n", "\r"}

UpperCase ==
    <<"A", "B", "C", "D", "E", "F", "G", "H", "I", "J", "K", "L", "M",
      "N", "O", "P", "Q", "R", "S", "T", "U", "V", "W", "X", "Y", "Z">>

LowerCase ==
    <<"a", "b", "c", "d", "e", "f", "g", "h", "i", "j", "k", "l", "m",
      "n", "o", "p", "q", "r", "s", "t", "u", "v", "w", "x", "y", "z">>

LowerChar(c) ==
    IF \E i \in DOMAIN UpperCase : UpperCase[i] = c
    THEN LowerCase[CHOOSE i \in DOMAIN UpperCase : UpperCase[i] = c]
    ELSE c

\* str.lower
lower(s) == [i \in DOMAIN s |-> LowerChar(s[i])]

RECURSIVE lstrip(_)
lstrip(s) ==
    IF s # <<>> /\ Head(s) \in Whitespace THEN lstrip(Tail(s)) ELSE s

RECURSIVE rstrip(_)
rstrip(s) ==
    IF s # <<>> /\ s[Len(s)] \in Whitespace
    THEN rstrip(SubSeq(s, 1, Len(s) - 1))
    ELSE s

\* str.strip
strip(s) == rstrip(lstrip(s))

\* str.endswith
endswith(s, suffix) ==
    /\ Len(s) >= Len(suffix)
    /\ SubSeq(s, Len(s) - Len(suffix) + 1, Len(s)) = suffix

Range(f) == {f[i] : i \in DOMAIN f}

Max(S) == CHOOSE m \in S : \A n \in S : n <= m

\* "x in list"
Contains(list, x) == \E i \in DOMAIN list : list[i] = x

\* The dict csv.DictReader makes of one row: the header zipped with the
\* cells (of a repeated field name the last column wins), None for the
\* fields a short row has no cell for, and the key restkey for a row longer
\* than the header (its surplus cells are never read, so None stands for
\* them).
DictReaderRow(fnames, cells) ==
    LET keys == Range(fnames) \cup
                (IF Len(cells) > Len(fnames) THEN {restkey} ELSE {})
        last(k) == Max({i \in DOMAIN fnames : fnames[i] = k})
    IN  [k \in keys |->
            IF k \notin Range(fnames)
            THEN None
            ELSE IF last(k) <= Len(cells) THEN cells[last(k)] ELSE None]

\* dict.get(key, "")
Get(d, key) == IF key \in DOMAIN d THEN d[key] ELSE <<>>

\* d[key] = value
SetItem(d, key, value) ==
    [k \in DOMAIN d \cup {key} |-> IF k = key THEN value ELSE d[k]]

\* what csv.writer writes for a cell: None is written as the empty text
CellText(v) == IF v = None THEN <<>> ELSE v

\* the cells written without their surrounding whitespace
DictToListStripped(wfields, d) ==
    [i \in DOMAIN wfields |->
        IF wfields[i] \in DOMAIN d /\ d[wfields[i]] # None
        THEN rstrip(lstrip(d[wfields[i]]))
        ELSE <<>>]

\* The line csv.DictWriter.writerow writes: one cell per field of
\* writer.fieldnames, the empty text for a field the dict lacks.
DictToList(wfields, d) ==
    [i \in DOMAIN wfields |->
        IF wfields[i] \in DOMAIN d THEN CellText(d[wfields[i]]) ELSE <<>>]

\* DictWriter raises ValueError for a dict with keys outside its fieldnames
WrongFields(wfields, d) == DOMAIN d \ Range(wfields)

\* ------------------------------------------------------------ allocation
\* the capacity guard left out
AvailableAnyKey(cap, slot) == slot \in DOMAIN cap

\* the capacity guard off by one, downwards
AvailableNonNegative(cap, slot) == slot \in DOMAIN cap /\ cap[slot] >= 0

\* the capacity guard off by one, upwards
AvailableAboveOne(cap, slot) == slot \in DOMAIN cap /\ cap[slot] > 1

\* allocator.py:28 and iiitk.py:48: the label is a key of the table and the
\* slot has capacity left
Available(cap, slot) == slot \in DOMAIN cap /\ cap[slot] > 0

\* the decrement left out
NoDecrement(cap, slot) == cap

\* two places taken for one allocation
DecrementTwice(cap, slot) == [cap EXCEPT ![slot] = @ - 2]

\* capacity[slot] -= 1
Decrement(cap, slot) == [cap EXCEPT ![slot] = @ - 1]

\* the preference loop run from the last rank to the first
RECURSIVE MatchBaseReversed(_, _, _)
MatchBaseReversed(d, cap, k) ==
    IF k > Len(pref_keys)
    THEN [raised |-> FALSE, slot |-> None]
    ELSE IF pref_keys[Len(pref_keys) + 1 - k] \notin DOMAIN d
    THEN [raised |-> TRUE, slot |-> None]
    ELSE LET slot == d[pref_keys[Len(pref_keys) + 1 - k]]
         IN  IF slot \in DOMAIN cap /\ cap[slot] > 0
             THEN [raised |-> FALSE, slot |-> slot]
             ELSE MatchBaseReversed(d, cap, k + 1)

\* allocator.py:26-31: the preference loop from rank k on.  raised: the
\* KeyError of row[pref_key] for a column the header lacks; slot: the slot
\* allocated, None when the loop ends without a break.
RECURSIVE MatchBase(_, _, _)
MatchBase(d, cap, k) ==
    IF k > Len(pref_keys)
    THEN [raised |-> FALSE, slot |-> None]
    ELSE IF pref_keys[k] \notin DOMAIN d
    THEN [raised |-> TRUE, slot |-> None]
    ELSE LET slot == d[pref_keys[k]]
         IN  IF Available(cap, slot)
             THEN [raised |-> FALSE, slot |-> slot]
             ELSE MatchBase(d, cap, k + 1)

\* the preference loop looking the cell up as it is, untrimmed
RECURSIVE MatchExtExact(_, _, _)
MatchExtExact(d, cap, k) ==
    IF k > Len(preference_columns)
    THEN [raised |-> FALSE, slot |-> None]
    ELSE IF Get(d, preference_columns[k]) = None
    THEN [raised |-> TRUE, slot |-> None]
    ELSE LET slot == Get(d, preference_columns[k])
         IN  IF slot \in DOMAIN cap /\ cap[slot] > 0
             THEN [raised |-> FALSE, slot |-> slot]
             ELSE MatchExtExact(d, cap, k + 1)

\* iiitk.py:45-51: the preference loop from rank k on.  raised: the
\* AttributeError of None.strip() for a field a short row has no cell for.
RECURSIVE MatchExt(_, _, _)
MatchExt(d, cap, k) ==
    IF k > Len(preference_columns)
    THEN [raised |-> FALSE, slot |-> None]
    ELSE IF Get(d, preference_columns[k]) = None
    THEN [raised |-> TRUE, slot |-> None]
    ELSE LET slot == strip(Get(d, preference_columns[k]))
         IN  IF Available(cap, slot)
             THEN [raised |-> FALSE, slot |-> slot]
             ELSE MatchExt(d, cap, k + 1)

\* the default outcome left out
OutcomeRaw(allocated_slot) == allocated_slot

\* allocated_slot if allocated_slot else "No slot allocated"
Outcome(allocated_slot) ==
    IF allocated_slot # None /\ allocated_slot # <<>>
    THEN allocated_slot
    ELSE NoSlotAllocated

\* the capacity table after the preference loop
AfterMatch(cap, allocated_slot) ==
    IF allocated_slot # None THEN Decrement(cap, allocated_slot) ELSE cap

\* iiitk.py:35: row.get("Email", "").strip().lower()
NormalizeEmail(v) == lower(strip(v))

\* the suffix looked for anywhere in the address
EmailAcceptedAnywhere(email) ==
    \E i \in 1..(Len(email) - Len(DomainSuffix) + 1) :
        SubSeq(email, i, i + Len(DomainSuffix) - 1) = DomainSuffix

\* iiitk.py:39: the e-mail passes the domain check
EmailAccepted(email) == endswith(email, DomainSuffix)

\* allocator.py:18
OutFieldnamesBase(fnames) == fnames \o <<AllocatedSlot>>

\* the column appended without looking
OutFieldnamesExtAlways(fnames) == fnames \o <<AllocatedSlot>>

\* iiitk.py:26-28
OutFieldnamesExt(fnames) ==
    IF Contains(fnames, AllocatedSlot)
    THEN fnames
    ELSE fnames \o <<AllocatedSlot>>

\* the line put in front of the lines written so far
EmitFirst(lines, line) == <<line>> \o lines

\* the records written before replaced by the new line
EmitOverwrite(lines, line) == [i \in 1..(Len(lines) + 1) |-> line]

\* the line written twice
EmitTwice(lines, line) == Append(Append(lines, line), line)

\* writer.writerow(row) appends one line to the output file
Emit(lines, line) == Append(lines, line)

\* ---------------------------------------------------------------- inputs
Typo ==
    <<"S", "L", "O", "T", " ", "6">>

MailOk ==
    <<"a", "@", "i", "i", "i", "t", "k", ".", "a", "c", ".", "i", "n">>

MailPaddedUpper ==
    <<" ", "B", "@", "I", "I", "I", "T", "K", ".", "A", "C", ".", "I", "N", " ">>

MailOther ==
    <<"a", "@", "o", "t", "h", "e", "r", ".", "c", "o", "m">>

MailPrefixOnly ==
    <<"a", "@", "i", "i", "i", "t", "k", ".", "a", "c", ".", "i", "n", ".", "o", "r", "g">>

Padded(s) == <<" ">> \o s \o <<" ">>

Empty == <<>>

Name == "Name"

\* headers of base-variant inputs: a form export, an already annotated
\* file, an export without the third preference column
HeaderBasePlain == <<Name>> \o pref_keys

HeaderBaseAnnotated == HeaderBasePlain \o <<AllocatedSlot>>

HeaderBaseNoThird == <<Name, pref_keys[1], pref_keys[2]>>

HeadersBase == {HeaderBasePlain, HeaderBaseAnnotated, HeaderBaseNoThird}

\* headers of extended-variant inputs: a form export, an already annotated
\* file, an export without Email column, an export without preferences
HeaderExtPlain == <<Email>> \o preference_columns

HeaderExtAnnotated == HeaderExtPlain \o <<AllocatedSlot>>

HeaderExtNoEmail == <<Name, preference_columns[1]>>

HeaderExtNoPrefs == <<Name, Email>>

HeadersExt ==
    {HeaderExtPlain, HeaderExtAnnotated, HeaderExtNoEmail, HeaderExtNoPrefs}

\* cells padded with empty cells up to n cells
PadTo(cells, n) == cells \o [i \in 1..(n - Len(cells)) |-> Empty]

NineTimes(s) == [i \in 1..9 |-> s]

\* rows of a base-variant input, by header; <<>> is a blank line
RowsBase(h) ==
    IF h = HeaderBasePlain THEN
        { <<<<"a">>, SLOT_1_B, SLOT_4_B, SLOT_5_B>>,
          <<<<"b">>, Typo, SLOT_5_B, SLOT_1_B>>,
          <<<<"c">>, Padded(SLOT_1_B), SLOT_1_B, SLOT_1_B>>,
          <<<<"d">>, SLOT_5_B, Padded(SLOT_4_B), Typo>>,
          <<<<"g">>, SLOT_1_B, SLOT_4_B, SLOT_5_B, <<"x">> >> }
    ELSE IF h = HeaderBaseAnnotated THEN
        { <<<<"a">>, SLOT_1_B, SLOT_4_B, SLOT_5_B, SLOT_4_B>>,
          <<<<"d">>, SLOT_5_B, Empty, Typo, NoSlotAllocated>>,
          <<<<"e">>, SLOT_4_B>>,
          <<>> }
    ELSE
        { <<<<"a">>, SLOT_1_B, SLOT_4_B>>,
          <<<<"b">>, SLOT_5_B, Typo>> }

\* rows of an extended-variant input, by header; <<>> is a blank line
RowsExt(h) ==
    IF h = HeaderExtPlain THEN
        { PadTo(<<MailOk, SLOT_6_E, SLOT_7_E, SLOT_2_E>>, 10),
          PadTo(<<MailPaddedUpper, Padded(SLOT_6_E), Typo, SLOT_7_E>>, 10),
          PadTo(<<MailOther, SLOT_6_E, SLOT_7_E>>, 10),
          PadTo(<<MailOk, Typo>>, 10),
          <<MailOk>> \o NineTimes(SLOT_6_E),
          <<MailOk, SLOT_6_E>>,
          <<>>,
          PadTo(<<MailOk, SLOT_6_E>>, 11) }
    ELSE IF h = HeaderExtAnnotated THEN
        { PadTo(<<MailOk, SLOT_6_E, SLOT_7_E>>, 10) \o <<SLOT_7_E>>,
          PadTo(<<MailPrefixOnly, SLOT_6_E>>, 10) \o <<SLOT_6_E>>,
          <<>> }
    ELSE IF h = HeaderExtNoEmail THEN
        { <<<<"n">>, SLOT_6_E>> }
    ELSE
        { <<<<"n">>, MailOk>>, <<<<"m">>, Padded(MailOther)>>, <<<<"k">> >> }

\* ------------------------------------------------------------ the program
\* the table left by an earlier call taken over
capacityKept(v, left) == left

\* allocator.py:5-12, iiitk.py:6-16: every call builds its own table from
\* the literal, whatever an earlier call left
capacityAtCall(v, left) == InitialCapacity(v)

\* the output file opened whether or not the input file could be
OutputOpenedAlways(exists) == TRUE

\* allocator.py:14-15, iiitk.py:20-21: the with statement opens the output
\* file after the input file, so only when that could be opened
OutputOpened(exists) == exists

\* the rows a call may read from the input file
RowBound ==
    IF calls > 1 THEN MaxRerunRows
    ELSE IF variant = "base" THEN MaxRowsBase ELSE MaxRowsExt

\* the output file as it is on disk: what this call has written once it
\* has opened the file, what was there before until then; <<>> is no file
Disk ==
    IF outopened
    THEN <<[header |-> outheader, rows |-> outrows]>>
    ELSE artifact

Init ==
    /\ variant \in {"base", "ext"}
    /\ pc = "open"
    /\ fieldnames = <<>>
    /\ nread = 0
    /\ records = <<>>
    /\ capacity = capacityAtCall(variant, InitialCapacity(variant))
    /\ row = <<>>
    /\ writer = <<>>
    /\ outheader = <<>>
    /\ outrows = <<>>
    /\ capBefore = <<>>
    /\ err = "none"
    /\ infile = [header |-> <<>>, rows |-> <<>>, complete |-> FALSE]
    /\ inputExists \in BOOLEAN
    /\ calls = 1
    /\ artifact = <<>>
    /\ outopened = FALSE

\* allocator.py:14-15, iiitk.py:20-21: the input file is opened, then the
\* output file for writing, which creates or truncates it; a missing input
\* file raises FileNotFoundError
Open ==
    /\ pc = "open"
    /\ outopened' = OutputOpened(inputExists)
    /\ IF inputExists
       THEN pc' = "header" /\ UNCHANGED err
       ELSE pc' = "error" /\ err' = "FileNotFoundError"
    /\ UNCHANGED <<variant, fieldnames, nread, records, capacity, row, writer,
                   outheader, outrows, capBefore, infile, inputExists, calls,
                   artifact>>

\* allocator.py:17-20; an empty file has no header (fieldnames is None)
ReadHeaderBase ==
    /\ pc = "header"
    /\ variant = "base"
    /\ \E h \in HeadersBase \cup {None} :
        /\ infile.header = <<>> \/ infile.header = <<h>>
        /\ infile' = [infile EXCEPT !.header = <<h>>]
        /\ fieldnames' = h
        /\ IF h = None
           THEN /\ pc' = "error"
                /\ err' = "TypeError"
                /\ UNCHANGED <<writer, outheader>>
           ELSE /\ writer' = OutFieldnamesBase(h)
                /\ outheader' = <<OutFieldnamesBase(h)>>
                /\ pc' = "next"
                /\ UNCHANGED err
    /\ UNCHANGED <<variant, nread, records, capacity, row, outrows,
                   capBefore, inputExists, calls, artifact, outopened>>

\* iiitk.py:23-31
ReadHeaderExt ==
    /\ pc = "header"
    /\ variant = "ext"
    /\ \E h \in HeadersExt \cup {None} :
        /\ infile.header = <<>> \/ infile.header = <<h>>
        /\ infile' = [infile EXCEPT !.header = <<h>>]
        /\ fieldnames' = h
        /\ IF h = None
           THEN /\ pc' = "error"
                /\ err' = "TypeError"
                /\ UNCHANGED <<writer, outheader>>
           ELSE /\ writer' = OutFieldnamesExt(h)
                /\ outheader' = <<OutFieldnamesExt(h)>>
                /\ pc' = "next"
                /\ UNCHANGED err
    /\ UNCHANGED <<variant, nread, records, capacity, row, outrows,
                   capBefore, inputExists, calls, artifact, outopened>>

\* the reader takes the next row of the file: a row an earlier call has
\* read already, or one read for the first time
NextRow(cells) ==
    IF nread < Len(infile.rows)
    THEN /\ cells = infile.rows[nread + 1]
         /\ UNCHANGED infile
    ELSE /\ ~infile.complete
         /\ nread < RowBound
         /\ infile' = [infile EXCEPT !.rows = Append(@, cells)]

\* allocator.py:22-33: the reader yields the next row (a blank line is
\* skipped by DictReader) and the loop body runs up to writer.writerow
AllocateBase ==
    /\ pc = "next"
    /\ variant = "base"
    /\ \E cells \in RowsBase(fieldnames) :
        /\ NextRow(cells)
        /\ nread' = nread + 1
        /\ IF cells = <<>>
           THEN UNCHANGED <<pc, records, capacity, row, capBefore, err>>
           ELSE LET d == DictReaderRow(fieldnames, cells)
                    m == MatchBase(d, capacity, 1)
                IN  /\ records' = Append(records, d)
                    /\ capBefore' = Append(capBefore, capacity)
                    /\ IF m.raised
                       THEN /\ pc' = "error"
                            /\ err' = "KeyError"
                            /\ row' = d
                            /\ UNCHANGED capacity
                       ELSE /\ capacity' = AfterMatch(capacity, m.slot)
                            /\ row' = SetItem(d, AllocatedSlot,
                                              Outcome(m.slot))
                            /\ pc' = "write"
                            /\ UNCHANGED err
    /\ UNCHANGED <<variant, fieldnames, writer, outheader, outrows,
                   inputExists, calls, artifact, outopened>>

\* iiitk.py:33-53: the reader yields the next row and the loop body runs
\* up to one of its two writer.writerow calls
AllocateExt ==
    /\ pc = "next"
    /\ variant = "ext"
    /\ \E cells \in RowsExt(fieldnames) :
        /\ NextRow(cells)
        /\ nread' = nread + 1
        /\ IF cells = <<>>
           THEN UNCHANGED <<pc, records, capacity, row, capBefore, err>>
           ELSE LET d == DictReaderRow(fieldnames, cells)
                IN  /\ records' = Append(records, d)
                    /\ capBefore' = Append(capBefore, capacity)
                    /\ IF Get(d, Email) = None
                       THEN /\ pc' = "error"
                            /\ err' = "AttributeError"
                            /\ row' = d
                            /\ UNCHANGED capacity
                       ELSE IF ~EmailAccepted(NormalizeEmail(Get(d, Email)))
                       THEN /\ row' = SetItem(d, AllocatedSlot,
                                              InvalidEmailDomain)
                            /\ pc' = "write"
                            /\ UNCHANGED <<capacity, err>>
                       ELSE LET m == MatchExt(d, capacity, 1)
                            IN  IF m.raised
                                THEN /\ pc' = "error"
                                     /\ err' = "AttributeError"
                                     /\ row' = d
                                     /\ UNCHANGED capacity
                                ELSE /\ capacity' =
                                            AfterMatch(capacity, m.slot)
                                     /\ row' = SetItem(d, AllocatedSlot,
                                                       Outcome(m.slot))
                                     /\ pc' = "write"
                                     /\ UNCHANGED err
    /\ UNCHANGED <<variant, fieldnames, writer, outheader, outrows,
                   inputExists, calls, artifact, outopened>>

\* allocator.py:34, iiitk.py:41 and 54: writer.writerow(row)
WriteRow ==
    /\ pc = "write"
    /\ IF WrongFields(writer, row) # {}
       THEN /\ pc' = "error"
            /\ err' = "ValueError"
            /\ UNCHANGED outrows
       ELSE /\ outrows' = Emit(outrows, DictToList(writer, row))
            /\ pc' = "next"
            /\ UNCHANGED err
    /\ UNCHANGED <<variant, fieldnames, nread, records, capacity, row, writer,
                   outheader, capBefore, infile, inputExists, calls,
                   artifact, outopened>>

\* the reader is exhausted: the loop ends and the with block closes the files
EndOfInput ==
    /\ pc = "next"
    /\ nread = Len(infile.rows)
    /\ infile' = [infile EXCEPT !.complete = TRUE]
    /\ pc' = "done"
    /\ UNCHANGED <<variant, fieldnames, nread, records, capacity, row, writer,
                   outheader, outrows, capBefore, err, inputExists, calls,
                   artifact, outopened>>

\* allocator.py:37, iiitk.py:57: allocate_slots is called again on the same
\* file names (the script is run again); the input file is as it was, or
\* has been removed or put back in the meantime, and the output file is as
\* the earlier calls left it.  The locals of the new call start afresh.
CallAgain ==
    /\ pc \in {"done", "error"}
    /\ calls < MaxCalls
    /\ Len(infile.rows) <= MaxRerunRows
    /\ calls' = calls + 1
    /\ artifact' = Disk
    /\ outopened' = FALSE
    /\ inputExists' \in BOOLEAN
    /\ capacity' = capacityAtCall(variant, capacity)
    /\ pc' = "open"
    /\ err' = "none"
    /\ fieldnames' = <<>>
    /\ nread' = 0
    /\ records' = <<>>
    /\ row' = <<>>
    /\ writer' = <<>>
    /\ outheader' = <<>>
    /\ outrows' = <<>>
    /\ capBefore' = <<>>
    /\ UNCHANGED <<variant, infile>>

Next ==
    \/ Open
    \/ ReadHeaderBase
    \/ ReadHeaderExt
    \/ AllocateBase
    \/ AllocateExt
    \/ WriteRow
    \/ EndOfInput
    \/ CallAgain

Spec == Init /\ [][Next]_vars

\* ------------------------------------------------------------ properties
\* input record i, as the reader yielded it
Record(i) == records[i]

\* the column of the output that holds the outcome
OutcomeColumn == Max({j \in DOMAIN writer : writer[j] = AllocatedSlot})

\* the outcome of output record i
OutcomeOf(i) == outrows[i][OutcomeColumn]

SlotKeys == DOMAIN InitialCapacity(variant)

Count(list, x) == Cardinality({j \in DOMAIN list : list[j] = x})

\* the slot label preference rank k of input record i names: the cell, in
\* the extended variant without its surrounding whitespace; None when the
\* record has no such cell
PrefLabel(i, k) ==
    LET col == PrefColumns(variant)[k]
        v == IF col \in DOMAIN Record(i) THEN Record(i)[col] ELSE None
    IN  IF v = None THEN None
        ELSE IF variant = "ext" THEN strip(v) ELSE v

\* the ranks of record i that name a slot with capacity left in cap
AvailableRanks(i, cap) ==
    {k \in DOMAIN PrefColumns(variant) :
        /\ PrefLabel(i, k) \in DOMAIN cap
        /\ cap[PrefLabel(i, k)] > 0}

Min(S) == CHOOSE m \in S : \A n \in S : m <= n

\* the highest-ranked available preference of record i, None without one
TopAvailable(i, cap) ==
    IF AvailableRanks(i, cap) = {} THEN None
    ELSE PrefLabel(i, Min(AvailableRanks(i, cap)))

\* record i passes the e-mail check, where there is one
PassesEmailCheck(i) ==
    \/ variant = "base"
    \/ LET v == Get(Record(i), Email)
       IN  v # None /\ endswith(lower(strip(v)), DomainSuffix)

\* C1: for every configured slot, the number of output records whose
\* outcome is that slot is at most the slot's configured initial capacity,
\* at every point of the run, in both variants.
CapacityInvariant ==
    \A S \in SlotKeys :
        Cardinality({i \in DOMAIN outrows : OutcomeOf(i) = S})
            <= InitialCapacity(variant)[S]

\* a base run in which slot 1 is full and a later applicant who asked for
\* it first got something else
CapacityWitness ==
    /\ variant = "base"
    /\ Cardinality({i \in DOMAIN outrows : OutcomeOf(i) = SLOT_1_B}) = 5
    /\ \E i \in DOMAIN outrows :
        /\ PrefLabel(i, 1) = SLOT_1_B
        /\ OutcomeOf(i) # SLOT_1_B

\* output line i is input record i with its outcome: every field of the
\* input other than the outcome column holds the record's cell
AnnotationOf(i) ==
    /\ Len(outrows[i]) = Len(writer)
    /\ \A j \in DOMAIN fieldnames :
        fieldnames[j] # AllocatedSlot =>
            outrows[i][j] = CellText(Record(i)[fieldnames[j]])

\* C2: when a run completes the output has as many records as the input
\* and output record i is the annotation of input record i, rejected
\* records included.
CoverageAndOrder ==
    pc = "done" =>
        /\ Len(outrows) = Len(records)
        /\ \A i \in DOMAIN outrows : AnnotationOf(i)

\* a completed extended run with a rejected record among three or more,
\* the first two of them different
CoverageWitness ==
    /\ pc = "done"
    /\ variant = "ext"
    /\ Len(outrows) >= 3
    /\ outrows[1] # outrows[2]
    /\ \E i \in DOMAIN outrows : OutcomeOf(i) = InvalidEmailDomain

\* C3: every output record carries one outcome, which is a key of the
\* capacity table, "No slot allocated" or "Invalid email domain", the last
\* never in the base variant.
OutcomeDomain ==
    \A i \in DOMAIN outrows :
        /\ Len(outrows[i]) = Len(writer)
        /\ \A j \in DOMAIN writer :
            writer[j] = AllocatedSlot => outrows[i][j] = OutcomeOf(i)
        /\ OutcomeOf(i) \in
            SlotKeys \cup {NoSlotAllocated, InvalidEmailDomain}
        /\ variant = "base" => OutcomeOf(i) # InvalidEmailDomain

\* an extended run with the three kinds of outcome
OutcomeDomainWitness ==
    /\ variant = "ext"
    /\ \E i, j, k \in DOMAIN outrows :
        /\ OutcomeOf(i) \in SlotKeys
        /\ OutcomeOf(j) = NoSlotAllocated
        /\ OutcomeOf(k) = InvalidEmailDomain

\* A before B, slot S the top available preference of both in the table
\* as A finds it, and S with room for exactly one more
ContendFor(a, b, S) ==
    /\ a < b
    /\ S \in SlotKeys
    /\ capBefore[a][S] = 1
    /\ TopAvailable(b, capBefore[a]) = S

\* C4 as stated: if A precedes B, both have S as top available preference
\* when A is processed and S has room for exactly one, then A's outcome is
\* S and B's is not.
FirstComeFirstServedAsStated ==
    \A a \in DOMAIN outrows :
        LET S == TopAvailable(a, capBefore[a])
        IN  \A b \in DOMAIN outrows :
                ContendFor(a, b, S) =>
                    OutcomeOf(a) = S /\ OutcomeOf(b) # S

\* C4 amended: the same for an applicant A who passes the e-mail check of
\* the extended variant.
FirstComeFirstServed ==
    \A a \in DOMAIN outrows :
        LET S == TopAvailable(a, capBefore[a])
        IN  \A b \in DOMAIN outrows :
                (ContendFor(a, b, S) /\ PassesEmailCheck(a)) =>
                    OutcomeOf(a) = S /\ OutcomeOf(b) # S

\* a base run where the last place of a slot went to the earlier of two
\* applicants contending for it
FirstComeFirstServedWitness ==
    /\ variant = "base"
    /\ \E a, b \in DOMAIN outrows :
        /\ ContendFor(a, b, TopAvailable(a, capBefore[a]))
        /\ OutcomeOf(a) = TopAvailable(a, capBefore[a])
        /\ OutcomeOf(b) # OutcomeOf(a)

\* C5: an applicant who is assigned slot S has S as the label of the
\* lowest-numbered preference field that names a key of the table
\* with capacity left when the applicant is processed; unmatched labels at
\* higher ranks are skipped.
FirstFit ==
    \A i \in DOMAIN outrows :
        OutcomeOf(i) \in SlotKeys =>
            /\ AvailableRanks(i, capBefore[i]) # {}
            /\ OutcomeOf(i) = TopAvailable(i, capBefore[i])

\* an applicant whose first preference is a typo got the slot of a later
\* rank
FirstFitWitness ==
    \E i \in DOMAIN outrows :
        /\ PrefLabel(i, 1) = Typo
        /\ OutcomeOf(i) \in SlotKeys
        /\ Min(AvailableRanks(i, capBefore[i])) > 1

\* C6 as stated: an applicant's outcome is "No slot allocated" if and only
\* if none of their preference fields names a key of the table with
\* capacity left when the applicant is processed.
NoSlotIffNothingAvailableAsStated ==
    \A i \in DOMAIN outrows :
        OutcomeOf(i) = NoSlotAllocated
            <=> AvailableRanks(i, capBefore[i]) = {}

\* C6 amended: the same for the applicants who pass the e-mail check of the
\* extended variant.
NoSlotIffNothingAvailable ==
    \A i \in DOMAIN outrows :
        PassesEmailCheck(i) =>
            (OutcomeOf(i) = NoSlotAllocated
                <=> AvailableRanks(i, capBefore[i]) = {})

\* an applicant left without slot because a slot they listed, configured
\* with places, was full
NoSlotWitness ==
    \E i \in DOMAIN outrows :
        /\ PassesEmailCheck(i)
        /\ OutcomeOf(i) = NoSlotAllocated
        /\ \E k \in DOMAIN PrefColumns(variant) :
            /\ PrefLabel(i, k) \in SlotKeys
            /\ InitialCapacity(variant)[PrefLabel(i, k)] > 0
            /\ capBefore[i][PrefLabel(i, k)] = 0

\* the capacity table as the processing of input record i left it
CapAfter(i) == IF i < Len(capBefore) THEN capBefore[i + 1] ELSE capacity

\* input record i has an e-mail that fails the domain check
Rejected(i) ==
    /\ variant = "ext"
    /\ Get(Record(i), Email) # None
    /\ ~PassesEmailCheck(i)

\* C7: in the extended variant an applicant whose e-mail, trimmed and
\* lowercased, does not end with "@iiitk.ac.in" gets "Invalid email
\* domain" whatever the preferences, and processing that applicant leaves
\* the capacity table unchanged.
EmailShortCircuit ==
    /\ \A i \in DOMAIN records :
            Rejected(i) => CapAfter(i) = capBefore[i]
    /\ \A i \in DOMAIN outrows :
            Rejected(i) => OutcomeOf(i) = InvalidEmailDomain
    /\ (pc = "write" /\ Rejected(Len(records))) =>
            row[AllocatedSlot] = InvalidEmailDomain

\* a rejected applicant whose first preference had a free place
EmailShortCircuitWitness ==
    /\ variant = "ext"
    /\ \E i \in DOMAIN outrows :
        /\ ~PassesEmailCheck(i)
        /\ OutcomeOf(i) = InvalidEmailDomain
        /\ PrefLabel(i, 1) \in SlotKeys
        /\ capBefore[i][PrefLabel(i, 1)] > 0
        /\ capacity[PrefLabel(i, 1)] = capBefore[i][PrefLabel(i, 1)]

\* the slots configured without places
ClosedSlots == {S \in SlotKeys : InitialCapacity(variant)[S] = 0}

\* C8: a slot configured with capacity 0 is never an outcome; an applicant
\* listing it gets the slot of another preference or "No slot allocated".
ClosedSlotNeverAllocated ==
    \A i \in DOMAIN outrows :
        /\ OutcomeOf(i) \notin ClosedSlots
        /\ (variant = "base"
            /\ \E k \in DOMAIN pref_keys : PrefLabel(i, k) \in ClosedSlots)
           => OutcomeOf(i) \in
                ({PrefLabel(i, k) : k \in DOMAIN pref_keys} \ ClosedSlots)
                    \cup {NoSlotAllocated}

\* one applicant listing the closed slot first is left without slot and
\* another listing it got the slot of a later rank
ClosedSlotWitness ==
    /\ \E i \in DOMAIN outrows :
        /\ PrefLabel(i, 1) \in ClosedSlots
        /\ OutcomeOf(i) = NoSlotAllocated
    /\ \E i \in DOMAIN outrows :
        /\ PrefLabel(i, 2) \in ClosedSlots
        /\ OutcomeOf(i) = PrefLabel(i, 3)

\* C9: the base variant run on an input whose header already has an
\* "Allocated Slot" column writes a header with that column exactly once.
HeaderOnceBase ==
    (/\ variant = "base"
     /\ outheader # <<>>
     /\ Contains(fieldnames, AllocatedSlot))
    => Count(outheader[1], AllocatedSlot) = 1

\* C10: the header the extended variant writes is the input header when
\* that has an "Allocated Slot" column and the input header with the
\* column appended otherwise; fed back as input it comes out unchanged,
\* with the column exactly once.
HeaderIdempotentExt ==
    (variant = "ext" /\ outheader # <<>>) =>
        /\ outheader[1] =
            IF Contains(fieldnames, AllocatedSlot)
            THEN fieldnames
            ELSE Append(fieldnames, AllocatedSlot)
        /\ OutFieldnamesExt(outheader[1]) = outheader[1]
        /\ Count(outheader[1], AllocatedSlot) = 1

\* the extended variant has written the header of an annotated input
HeaderIdempotentWitness ==
    /\ variant = "ext"
    /\ outheader # <<>>
    /\ Contains(fieldnames, AllocatedSlot)
    /\ outrows # <<>>

\* input record i lacks a preference field: the header has no such column
\* or the row has no cell for it
LacksPreference(i) ==
    \E k \in DOMAIN PrefColumns(variant) :
        \/ PrefColumns(variant)[k] \notin DOMAIN Record(i)
        \/ Record(i)[PrefColumns(variant)[k]] = None

\* the run has stopped with an exception raised for the record it read last
RaisedOnLastRecord == pc = "error" /\ records # <<>>

\* C11: in the base variant a record that lacks a preference field does
\* not abort the run: the field counts as an absent preference and the
\* record gets an outcome.
MissingPreferenceNotFatalBase ==
    (/\ variant = "base"
     /\ records # <<>>
     /\ LacksPreference(Len(records))
     /\ restkey \notin DOMAIN Record(Len(records)))
    => ~RaisedOnLastRecord

\* C12: in the extended variant a row with a missing preference or Email
\* field, an unmatched label or a malformed e-mail never makes the run
\* raise: it gets "No slot allocated" or "Invalid email domain" and the run
\* goes on.
RowAnomalyNotFatalExt ==
    (/\ variant = "ext"
     /\ records # <<>>
     /\ restkey \notin DOMAIN Record(Len(records)))
    => ~RaisedOnLastRecord

\* the outcome the program has determined for input record i of this call:
\* the one written, or the one set in row and not written (yet); None when
\* the record raised before it had one
Determined(i) ==
    IF i <= Len(outrows) THEN OutcomeOf(i)
    ELSE IF pc = "write" \/ (pc = "error" /\ err = "ValueError")
    THEN row[AllocatedSlot]
    ELSE None

\* the entries of the table that the processing of input record i changed
Changed(i) == {S \in SlotKeys : CapAfter(i)[S] # capBefore[i][S]}

\* C13: processing one applicant changes at most one entry of the capacity
\* table, by exactly -1, and only when the applicant's outcome is that
\* slot; so the table keeps its keys, no entry is negative or grows, and
\* initial minus remaining capacity of a slot is the number of applicants
\* processed so far whose outcome is the slot.
CapacityAccounting ==
    /\ DOMAIN capacity = SlotKeys
    /\ \A S \in SlotKeys :
        /\ capacity[S] >= 0
        /\ InitialCapacity(variant)[S] - capacity[S] =
            Cardinality({i \in DOMAIN records : Determined(i) = S})
    /\ \A i \in DOMAIN records :
        /\ DOMAIN capBefore[i] = SlotKeys
        /\ Cardinality(Changed(i)) <= 1
        /\ \A S \in Changed(i) :
            /\ CapAfter(i)[S] = capBefore[i][S] - 1
            /\ Determined(i) = S

\* an applicant listing one slot at two ranks got it and took one place
CapacityAccountingWitness ==
    \E i \in DOMAIN outrows :
        /\ PrefLabel(i, 2) = PrefLabel(i, 3)
        /\ OutcomeOf(i) = PrefLabel(i, 2)
        /\ capBefore[i][OutcomeOf(i)] - CapAfter(i)[OutcomeOf(i)] = 1
        /\ Changed(i) = {OutcomeOf(i)}

\* C14 as stated: for every input field other than "Allocated Slot",
\* output record i holds exactly the value input record i had for that
\* field, in the original field order.
FieldsUnchangedAsStated ==
    \A i \in DOMAIN outrows : \A j \in DOMAIN fieldnames :
        fieldnames[j] # AllocatedSlot =>
            outrows[i][j] = Record(i)[fieldnames[j]]

\* C14 amended: the same, a field the input row has no cell for (a row
\* shorter than the header) being written as an empty cell; and the
\* trimmed label and the normalized e-mail are not written back to the
\* record.
FieldsUnchanged ==
    /\ \A i \in DOMAIN outrows : \A j \in DOMAIN fieldnames :
        fieldnames[j] # AllocatedSlot =>
            outrows[i][j] =
                IF Record(i)[fieldnames[j]] = None
                THEN <<>>
                ELSE Record(i)[fieldnames[j]]
    /\ pc = "write" =>
        \A f \in DOMAIN Record(Len(records)) \ {AllocatedSlot} :
            row[f] = Record(Len(records))[f]

\* a record of the extended variant with padded, upper-case e-mail and
\* padded label was allocated the slot and written with its cells as read
FieldsUnchangedWitness ==
    /\ variant = "ext"
    /\ \E i \in DOMAIN outrows :
        /\ outrows[i][1] = MailPaddedUpper
        /\ outrows[i][2] = Padded(SLOT_6_E)
        /\ OutcomeOf(i) = SLOT_6_E

\* the cell of preference rank k of input record i, None without one
Cell(i, k) ==
    IF PrefColumns(variant)[k] \in DOMAIN Record(i)
    THEN Record(i)[PrefColumns(variant)[k]]
    ELSE None

\* the label looked up for a cell: trimmed in the extended variant, the
\* cell as it is in the base variant
LookedUp(v) == IF variant = "ext" THEN strip(v) ELSE v

\* the ranks of record i whose cell is matchable in cap
MatchableRanks(i, cap) ==
    {k \in DOMAIN PrefColumns(variant) :
        /\ Cell(i, k) # None
        /\ LookedUp(Cell(i, k)) \in DOMAIN cap
        /\ cap[LookedUp(Cell(i, k))] > 0}

\* C15: in the extended variant a preference cell that equals a configured
\* slot identifier after trimming is matched like the identifier and the
\* outcome recorded is the identifier; in the base variant only a cell
\* exactly equal to an identifier is matchable and a padded label counts
\* as unmatched.
WhitespaceHandling ==
    \A i \in DOMAIN outrows :
        PassesEmailCheck(i) =>
            IF MatchableRanks(i, capBefore[i]) = {}
            THEN OutcomeOf(i) = NoSlotAllocated
            ELSE /\ OutcomeOf(i) \in SlotKeys
                 /\ OutcomeOf(i) =
                      LookedUp(Cell(i, Min(MatchableRanks(i, capBefore[i]))))

\* a base applicant whose only open slot was written with padding is left
\* without slot although the slot has places
WhitespaceWitness ==
    /\ variant = "base"
    /\ \E i \in DOMAIN outrows :
        /\ Cell(i, 2) = Padded(SLOT_4_B)
        /\ capBefore[i][SLOT_4_B] > 0
        /\ OutcomeOf(i) = NoSlotAllocated

\* the records written are those of the input records fully processed
WrittenAreProcessed ==
    /\ pc \in {"next", "done"} => Len(outrows) = Len(records)
    /\ pc = "write" => Len(outrows) + 1 = Len(records)
    /\ Len(outrows) <= Len(records)

\* a step of one call writes at most one record, after the records
\* written before, fully formed, for the input record whose outcome has
\* just been determined; and takes the next input record only when the
\* last one has been written
LockstepStep ==
    calls' = calls =>
        /\ Len(outrows') <= Len(outrows) + 1
        /\ SubSeq(outrows', 1, Len(outrows)) = outrows
        /\ outrows' # outrows =>
            /\ pc = "write"
            /\ Len(outrows') = Len(records)
            /\ Len(outrows'[Len(outrows')]) = Len(writer)
            /\ outrows'[Len(outrows')][OutcomeColumn] = row[AllocatedSlot]
        /\ records' # records => Len(outrows) = Len(records)
        /\ WrittenAreProcessed'

\* C16: output record i is written after the outcome of input record i is
\* determined and before input record i+1 is examined, at most once; the
\* records written so far are a prefix of the final output, each fully
\* formed, as many as the input records fully processed.
LockstepEmission == [][LockstepStep]_vars

\* the outcome of the third record is determined and not written yet
LockstepWitness ==
    /\ pc = "write"
    /\ Len(outrows) = 2
    /\ Len(records) = 3
    /\ AllocatedSlot \in DOMAIN row

\* what input record i gets from a table cap, by the rules alone
ExpectedOutcome(i, cap) ==
    IF ~PassesEmailCheck(i) THEN InvalidEmailDomain
    ELSE IF TopAvailable(i, cap) = None THEN NoSlotAllocated
    ELSE TopAvailable(i, cap)

\* the table after an outcome
ExpectedTable(cap, outcome) ==
    IF outcome \in DOMAIN cap
    THEN [cap EXCEPT ![outcome] = @ - 1]
    ELSE cap

ReplayWith(prev, outcome) ==
    [cap |-> ExpectedTable(prev.cap, outcome),
     outs |-> Append(prev.outs, outcome)]

ReplayStep(prev, n) == ReplayWith(prev, ExpectedOutcome(n, prev.cap))

\* the outcomes of input records 1..n computed from these records and the
\* configured table only, one record after the other
RECURSIVE Replay(_)
Replay(n) ==
    IF n = 0
    THEN [cap |-> InitialCapacity(variant), outs |-> <<>>]
    ELSE ReplayStep(Replay(n - 1), n)

\* a step of one call leaves the outcomes written before as they are
OutcomesKept ==
    calls' = calls =>
        \A i \in DOMAIN outrows :
            /\ i \in DOMAIN outrows'
            /\ outrows'[i][OutcomeColumn'] = OutcomeOf(i)

\* the outcomes written so far
Outcomes == [i \in DOMAIN outrows |-> OutcomeOf(i)]

\* the written outcomes are those the input records determine, each from
\* the records up to its own
OutcomesReplayed == Outcomes = Replay(Len(outrows)).outs

\* C17: the outcome of applicant i is a function of input records 1..i and
\* the configured table only, and once determined it is never changed by
\* the processing of a later applicant: every step starts with outcomes
\* that the replay of the records gives, and keeps them.
NoReassignment == [][OutcomesReplayed /\ OutcomesKept]_vars

\* two applicants with the same record got different outcomes, and a
\* later applicant has been processed since
NoReassignmentWitness ==
    \E i, j \in DOMAIN outrows :
        /\ i < j
        /\ j < Len(outrows)
        /\ Record(i) = Record(j)
        /\ OutcomeOf(i) # OutcomeOf(j)

\* C18: every call of allocate_slots starts from the configured capacity
\* table, not from what an earlier call left, and a call on the same input
\* as an earlier one leaves the output that call left.
RunsIndependent ==
    /\ pc = "open" => capacity = InitialCapacity(variant)
    /\ (/\ calls > 1
        /\ pc \in {"done", "error"}
        /\ outopened
        /\ artifact # <<>>)
       => Disk = artifact

\* a second call has completed on an input for which the first call had
\* used up a slot
RunsIndependentWitness ==
    /\ calls = 2
    /\ pc = "done"
    /\ artifact # <<>>
    /\ \E S \in SlotKeys :
        /\ InitialCapacity(variant)[S] > 0
        /\ capacity[S] = 0
    /\ Len(outrows) >= 2

\* C19: when the input file cannot be opened allocate_slots fails before
\* it opens the output file: an output file is not created, truncated or
\* written, and no applicant is processed.
MissingInputFatal ==
    ~inputExists =>
        /\ pc \in {"open", "error"}
        /\ pc = "error" => err = "FileNotFoundError"
        /\ ~outopened
        /\ Disk = artifact
        /\ records = <<>>
        /\ outheader = <<>> /\ outrows = <<>>
        /\ capacity = InitialCapacity(variant)

\* the call has failed on the missing input and the output of an earlier
\* call is as it was
MissingInputWitness ==
    /\ pc = "error"
    /\ err = "FileNotFoundError"
    /\ Disk # <<>>
    /\ Disk[1].rows # <<>>

====
